---- MODULE Spec2Model ----
(***************************************************************************)
(* MageBattle lobby server.                                                *)
(*                                                                         *)
(* Spec     : the Lobby actor of server/src/actors/lobby.rs (NewUser and   *)
(*            ClientMessageWrapper handlers over GameServerState).         *)
(* SpecMain : the RwLock server of server/src/main.rs (one task per        *)
(*            connection, one update_loop task, a shared registry).        *)
(* SpecClient : the client of src/main.rs and src/ws.rs (the websocket     *)
(*            handshake of Connection and Game::handle_message).           *)
(***************************************************************************)
EXTENDS Integers, Sequences, FiniteSets, TLC

\* ---------------------------------------------------------------- bounds
MaxJoins == 2      \* NewUser requests handled (each brings a fresh tx handle)
MaxReq == 1        \* challenge request ids generated
MaxConn == 3       \* websocket connections accepted (main.rs)
MaxFrames == 1     \* inbound frames read over all connections (main.rs)
MaxPlayers == 2    \* player ids the messages a client receives can carry
MaxRetries == 2    \* handshakes of one client that end Interrupted

\* ---------------------------------------------------------------- names
\* A String is a sequence of ASCII codes: "a" = <<97>>, "A" = <<65>>, "b" = <<98>>.
NameA == <<97>>
NameUpperA == <<65>>
NameB == <<98>>
EmptyName == <<>>
Names == {NameA, NameUpperA, NameB}

\* str::to_lowercase on ASCII text: 'A'..'Z' are moved to 'a'..'z'.
ToLowercase(s) == [i \in DOMAIN s |-> IF s[i] \in 65..90 THEN s[i] + 32 ELSE s[i]]

Ids == 1..MaxJoins
Txs == 1..MaxJoins
Conns == 1..MaxConn
LoopTask == 0
Tasks == Conns \cup {LoopTask}

VARIABLES
    users,     \* GameServerState.users : Uuid -> User
    nextId,    \* next value Uuid::new_v4() yields for a player id
    nextTx,    \* next outbound channel handed to a NewUser request
    nextReq,   \* next value Uuid::new_v4() yields for a request id
    closed,    \* outbound channels whose receiver was dropped
    alive,     \* the Lobby actor is running (no handler has panicked)
    sent,      \* messages the last handled request put on each channel, in order
    before,    \* users as they were when the last handled request started
    lastOp,    \* the last handled request and its result
    \* main.rs only
    pc,        \* where each connection's user_connected task stands
    queue,     \* ClientMessageWrapper values in the mpsc channel to update_loop
    loop,      \* update_loop: where it stands and the message it holds
    pend,      \* per task: the sends left in the loop it runs under a read guard
    outbox,    \* every message put on each outbound channel, in order
    frames,    \* inbound frames read so far
    \* client only
    game,      \* Game: player_state, OnlineState.id, players, quit
    ws,        \* Connection and the connect_internal call in progress
    lastMsg    \* the ServerMessage client_receive handled last

lobbyVars == <<nextTx, alive, sent>>
mainVars == <<pc, queue, loop, pend, outbox, frames>>
clientVars == <<game, ws, lastMsg>>
serverVars == <<users, nextId, nextTx, nextReq, closed, alive, sent, before, lastOp,
                pc, queue, loop, pend, outbox, frames>>
vars == <<users, nextId, nextTx, nextReq, closed, alive, sent, before, lastOp,
          pc, queue, loop, pend, outbox, frames, game, ws, lastMsg>>

\* ---------------------------------------------------------------- data
\* A User built with the flag set.
UserInGame(tx, name) == [tx |-> tx, in_game |-> TRUE, name |-> name]

\* User { tx, name, in_game: false }
User(tx, name) == [tx |-> tx, in_game |-> FALSE, name |-> name]
NoUser == [tx |-> 0, in_game |-> FALSE, name |-> EmptyName]

PlayerJoined(id, name) == [type |-> "PlayerJoined", id |-> id, name |-> name]
PlayerChangedName(id, name) == [type |-> "PlayerChangedName", id |-> id, name |-> name]
NameNotAvailable == [type |-> "NameNotAvailable", id |-> 0, name |-> EmptyName]
ChallengeReceived(r, name) == [type |-> "ChallengeReceived", id |-> r, name |-> name]
RequestReceived(r) == [type |-> "RequestReceived", id |-> r, name |-> EmptyName]
GoodBye(id) == [type |-> "GoodBye", id |-> id, name |-> EmptyName]
Welcome(id) == [type |-> "Welcome", id |-> id, name |-> EmptyName]
InvalidMessage == [type |-> "InvalidMessage", id |-> 0, name |-> EmptyName]

NoSent == [t \in Txs |-> <<>>]

\* All orders in which an iteration over a HashMap can visit the set S.
RECURSIVE Perms(_)
Perms(S) ==
    IF S = {} THEN {<<>>}
    ELSE UNION {{<<x>> \o p : p \in Perms(S \ {x})} : x \in S}

\* How often message m was put on channel t.
Count(out, t, m) == Cardinality({i \in DOMAIN out[t] : out[t][i] = m})

\* ---------------------------------------------------------------- send_msg
\* send_msg(tx, msg): tx.send(..).unwrap() panics when the receiver is gone.
\* SendSeq puts msgs on tx in order and stops at the first failure.
SendSeq(out, isClosed, tx, msgs) ==
    IF msgs = <<>> THEN [out |-> out, ok |-> TRUE]
    ELSE IF tx \in isClosed THEN [out |-> out, ok |-> FALSE]
    ELSE [out |-> [out EXCEPT ![tx] = @ \o msgs], ok |-> TRUE]

\* for user in users.values() { send_msg(&user.tx, &msg) }: every outcome of
\* the loop over the channels T in some HashMap order. With a closed channel
\* in T the loop panics there, after the channels visited before it.
BroadcastOutcomes(out, isClosed, T, m) ==
    IF T \cap isClosed = {}
    THEN {[out |-> [t \in Txs |-> IF t \in T THEN Append(out[t], m) ELSE out[t]],
           ok |-> TRUE]}
    ELSE {[out |-> [t \in Txs |-> IF t \in S THEN Append(out[t], m) ELSE out[t]],
           ok |-> FALSE] : S \in SUBSET (T \ isClosed)}

TxOf(us) == {us[u].tx : u \in DOMAIN us}

\* ---------------------------------------------------------------- Lobby
Op(kind, id, name, uid, result, retUser, found) ==
    [kind |-> kind, id |-> id, name |-> name, uid |-> uid, result |-> result,
     retUser |-> retUser, found |-> found]

NoOp == Op("None", 0, EmptyName, 0, "Done", NoUser, 0)

\* update_loop waiting in rx.recv(), and update_loop after a panic.
Idle == [pc |-> "recv", id |-> 0, kind |-> "None", name |-> EmptyName]
Dead == [pc |-> "dead", id |-> 0, kind |-> "None", name |-> EmptyName]

\* Game::new as handle_message reads it: PlayerState::Offline, no players.
\* A RemotePlayerState is its name; `id` is OnlineState.id (0 while Offline).
NewGame == [player_state |-> "Offline", id |-> 0, players |-> <<>>, quit |-> FALSE]

\* Connection::new: no socket; no connect_internal call is running.
\* mid_handshake_old is Some (TRUE) or None; retries counts the handshakes
\* that ended Interrupted.
NewConnection ==
    [pc |-> "idle", mid_handshake_old |-> FALSE, socket |-> FALSE, retries |-> 0]

\* No ServerMessage was handled yet.
NoServerMsg == [type |-> "None", id |-> 0, name |-> EmptyName]

InitClientVars ==
    /\ game = NewGame
    /\ ws = NewConnection
    /\ lastMsg = NoServerMsg

InitMainVars ==
    /\ pc = [c \in Conns |-> "new"]
    /\ queue = <<>>
    /\ loop = Idle
    /\ pend = [t \in Tasks |-> <<>>]
    /\ outbox = [c \in Conns |-> <<>>]
    /\ frames = 0

Init ==
    /\ users = <<>>
    /\ nextId = 1
    /\ nextTx = 1
    /\ nextReq = 1
    /\ closed = {}
    /\ alive = TRUE
    /\ sent = NoSent
    /\ before = <<>>
    /\ lastOp = NoOp
    /\ InitMainVars
    /\ InitClientVars

\* The scan with the candidate name lowercased on one side only.
NameTakenOneSideLowercased(us, name) ==
    \E u \in DOMAIN us : us[u].name = ToLowercase(name)

\* The scan of Handler<NewUser>: a registered user with exactly this name.
NameTaken(us, name) == \E u \in DOMAIN us : us[u].name = name

\* users.insert(id, new_user.clone())
Inserted(us, id, new_user) ==
    [u \in DOMAIN us \cup {id} |-> IF u = id THEN new_user ELSE us[u]]

\* The scan without its predicate: the first entry in HashMap order matches.
FindIgnoringName(us, name) == DOMAIN us

\* .find(|(_, user)| user.name.to_lowercase() == name.to_lowercase()): the
\* entries the scan can return (the first match in HashMap order).
FindByLowercase(us, name) ==
    {u \in DOMAIN us : ToLowercase(us[u].name) = ToLowercase(name)}

\* The roster loop stopping one entry short.
RosterMsgsButLast(us, p) ==
    [i \in 1..(Len(p) - 1) |-> PlayerJoined(p[i], us[p[i]].name)]

\* The roster loop of NewUser and GetPlayers: one PlayerJoined per entry other
\* than uid, in the order p of the HashMap iteration.
RosterMsgs(us, p) == [i \in DOMAIN p |-> PlayerJoined(p[i], us[p[i]].name)]

\* Handler<NewUser>::handle, the Ok branch: insert, broadcast, roster unicast.
JoinAccepted(name, new_user) ==
    LET id == nextId
        us1 == Inserted(users, id, new_user)
    IN  /\ users' = us1
        /\ nextId' = nextId + 1
        /\ \E b \in BroadcastOutcomes(NoSent, closed, TxOf(us1), PlayerJoined(id, name)) :
             IF ~b.ok
             THEN /\ sent' = b.out
                  /\ alive' = FALSE
                  /\ lastOp' = Op("NewUser", id, name, 0, "Panic", NoUser, 0)
             ELSE \E uid \in FindByLowercase(us1, name) :
                  \E p \in Perms(DOMAIN us1 \ {uid}) :
                    LET r == SendSeq(b.out, closed, us1[uid].tx, RosterMsgs(us1, p))
                    IN  /\ sent' = r.out
                        /\ alive' = r.ok
                        /\ lastOp' = Op("NewUser", id, name, 0,
                                        IF r.ok THEN "Ok" ELSE "Panic", NoUser, uid)

\* The Err branch taken after the insert instead of before it.
JoinRejectedAfterInsert(name, new_user) ==
    /\ users' = Inserted(users, nextId, new_user)
    /\ UNCHANGED <<nextId, alive>>
    /\ sent' = NoSent
    /\ lastOp' = Op("NewUser", 0, name, 0, "Err", new_user, 0)

\* Handler<NewUser>::handle, the Err branch: the candidate is handed back.
JoinRejected(name, new_user) ==
    /\ UNCHANGED <<users, nextId, alive>>
    /\ sent' = NoSent
    /\ lastOp' = Op("NewUser", 0, name, 0, "Err", new_user, 0)

\* Handler<NewUser>::handle
NewUser(name) ==
    /\ alive
    /\ nextTx <= MaxJoins
    /\ before' = users
    /\ nextTx' = nextTx + 1
    /\ UNCHANGED <<nextReq, closed>>
    /\ UNCHANGED <<mainVars, clientVars>>
    /\ LET new_user == User(nextTx, name)
       IN  IF NameTaken(users, name)
           THEN JoinRejected(name, new_user)
           ELSE JoinAccepted(name, new_user)

\* ---------------------------------------------------------------- Dispatch
\* Handler<ClientMessageWrapper>::handle runs user_message(msg, id, ..) for
\* any sender id the wrapper carries. Frame shared by every variant.
Handled ==
    /\ alive
    /\ before' = users
    /\ UNCHANGED <<nextId, nextTx, closed>>
    /\ UNCHANGED <<mainVars, clientVars>>

\* ClientMessage::Connect { .. } => {}
DispatchConnect(id) ==
    /\ Handled
    /\ UNCHANGED <<users, nextReq, alive>>
    /\ sent' = NoSent
    /\ lastOp' = Op("Connect", id, EmptyName, 0, "Done", NoUser, 0)

\* ClientMessage::GetPlayers
DispatchGetPlayers(id) ==
    /\ Handled
    /\ UNCHANGED <<users, nextReq>>
    /\ IF id \in DOMAIN users
       THEN \E p \in Perms(DOMAIN users \ {id}) :
              LET r == SendSeq(NoSent, closed, users[id].tx, RosterMsgs(users, p))
              IN  /\ sent' = r.out
                  /\ alive' = r.ok
                  /\ lastOp' = Op("GetPlayers", id, EmptyName, 0,
                                  IF r.ok THEN "Done" ELSE "Panic", NoUser, id)
       ELSE /\ sent' = NoSent
            /\ alive' = alive
            /\ lastOp' = Op("GetPlayers", id, EmptyName, 0, "Done", NoUser, 0)

\* The registry after an accepted ChangeName: user_message only broadcasts,
\* no entry is written.
Renamed(us, id, name) == us

\* ClientMessage::ChangeName { uid: _, name }: the uid field is never read.
DispatchChangeName(id, name) ==
    /\ Handled
    /\ UNCHANGED nextReq
    /\ IF FindByLowercase(users, name) # {}
       THEN /\ users' = users
            /\ LET r == IF id \in DOMAIN users
                        THEN SendSeq(NoSent, closed, users[id].tx, <<NameNotAvailable>>)
                        ELSE [out |-> NoSent, ok |-> TRUE]
               IN  /\ sent' = r.out
                   /\ alive' = r.ok
                   /\ lastOp' = Op("ChangeName", id, name, 0,
                                   IF r.ok THEN "Rejected" ELSE "Panic", NoUser, 0)
       ELSE /\ users' = Renamed(users, id, name)
            /\ \E b \in BroadcastOutcomes(NoSent, closed, TxOf(users),
                                          PlayerChangedName(id, name)) :
                 /\ sent' = b.out
                 /\ alive' = b.ok
                 /\ lastOp' = Op("ChangeName", id, name, 0,
                                 IF b.ok THEN "Changed" ELSE "Panic", NoUser, 0)

\* The two sends of ChallengePlayer in the other order.
ChallengeMsgsSwapped(us, t, r) ==
    <<RequestReceived(r), ChallengeReceived(r, us[t].name)>>

\* The two messages ChallengePlayer sends to the player t the scan found:
\* ChallengeReceived { request_id, name: player.name.clone() }, then
\* RequestReceived { request_id }.
ChallengeMsgs(us, t, r) ==
    <<ChallengeReceived(r, us[t].name), RequestReceived(r)>>

\* ClientMessage::ChallengePlayer { uid: _, name }: the uid field is never read.
DispatchChallengePlayer(id, name) ==
    /\ Handled
    /\ users' = users
    /\ IF FindByLowercase(users, name) # {}
       THEN /\ nextReq <= MaxReq
            /\ nextReq' = nextReq + 1
            /\ \E t \in FindByLowercase(users, name) :
                 LET r == SendSeq(NoSent, closed, users[t].tx,
                                  ChallengeMsgs(users, t, nextReq))
                 IN  /\ sent' = r.out
                     /\ alive' = r.ok
                     /\ lastOp' = Op("ChallengePlayer", id, name, 0,
                                     IF r.ok THEN "Done" ELSE "Panic", NoUser, t)
       ELSE /\ UNCHANGED <<nextReq, alive>>
            /\ sent' = NoSent
            /\ lastOp' = Op("ChallengePlayer", id, name, 0, "Done", NoUser, 0)

\* ClientMessage::AcceptChallenge / DenyChallenge / State => todo!()
DispatchTodo(id, kind) ==
    /\ Handled
    /\ UNCHANGED <<users, nextReq>>
    /\ alive' = FALSE
    /\ sent' = NoSent
    /\ lastOp' = Op(kind, id, EmptyName, 0, "Panic", NoUser, 0)

\* game_server.users.remove(&uid)
Removed(us, uid) == [u \in DOMAIN us \ {uid} |-> us[u]]

\* ClientMessage::Disconnect { uid }
DispatchDisconnect(id, uid) ==
    /\ Handled
    /\ UNCHANGED <<nextReq, alive>>
    /\ users' = Removed(users, uid)
    /\ sent' = NoSent
    /\ lastOp' = Op("Disconnect", id, EmptyName, uid, "Done", NoUser, 0)

\* The receiver of an outbound channel is dropped (its forwarding task ended).
CloseChannel(tx) ==
    /\ tx < nextTx
    /\ tx \notin closed
    /\ closed' = closed \cup {tx}
    /\ UNCHANGED <<users, nextId, nextTx, nextReq, alive, sent, before, lastOp>>
    /\ UNCHANGED <<mainVars, clientVars>>

TodoKinds == {"AcceptChallenge", "DenyChallenge", "State"}

Next ==
    \/ \E name \in Names : NewUser(name)
    \/ \E id \in Ids : DispatchConnect(id)
    \/ \E id \in Ids : DispatchGetPlayers(id)
    \/ \E id \in Ids, name \in Names : DispatchChangeName(id, name)
    \/ \E id \in Ids, name \in Names : DispatchChallengePlayer(id, name)
    \/ \E id \in Ids, kind \in TodoKinds : DispatchTodo(id, kind)
    \/ \E id \in Ids, uid \in Ids : DispatchDisconnect(id, uid)
    \/ \E tx \in Txs : CloseChannel(tx)

Spec == Init /\ [][Next]_vars

\* ================================================================ main.rs
\* The names inbound frames carry in the main.rs runs; String::new() is one.
MainNames == {EmptyName, NameA}

NoMsg == [kind |-> "None", name |-> EmptyName]
MainMsgs ==
    {[kind |-> k, name |-> n] : k \in {"Connect", "ChangeName", "ChallengePlayer"},
                                n \in MainNames}
        \cup {[kind |-> k, name |-> EmptyName] : k \in TodoKinds}

\* A websocket frame: binary or not, and the ClientMessage its bytes decode to
\* (NoMsg when they decode to none).
FrameSet ==
    {[binary |-> TRUE, msg |-> m] : m \in MainMsgs \cup {NoMsg}}
        \cup {[binary |-> FALSE, msg |-> NoMsg]}

\* parse_message: Some(msg) for a binary frame that deserializes, else None.
parse_message(f) == IF f.binary THEN f.msg ELSE NoMsg

\* A task holds a read guard of the RwLock while it has sends left.
ReadGuardHeld == \E t \in Tasks : pend[t] # <<>>

\* The sends of one loop over the registry: msg to every user's tx, in the
\* HashMap order p.
SendsTo(p, msg) == [i \in DOMAIN p |-> [tx |-> p[i], msg |-> msg]]

MainFrame == UNCHANGED <<lobbyVars, clientVars>>

\* send_welcome: let id = Uuid::new_v4(). Every connection draws a value no
\* other connection has: the connection's own number stands for it.
MyId(c) == c

\* user_connected up to send_welcome: the outbound channel is created and
\* Welcome { id } is put on it.
Accept(c) ==
    /\ pc[c] = "new"
    /\ pc' = [pc EXCEPT ![c] = "welcomed"]
    /\ outbox' = [outbox EXCEPT ![c] = Append(@, Welcome(MyId(c)))]
    /\ UNCHANGED <<users, nextId, nextReq, closed, before, lastOp, queue, loop, pend, frames>>
    /\ MainFrame

\* game_server.write().await.users.insert(my_id, User { tx, name: String::new(), .. })
Register(c) ==
    /\ pc[c] = "welcomed"
    /\ ~ReadGuardHeld
    /\ users' = Inserted(users, MyId(c), User(c, EmptyName))
    /\ pc' = [pc EXCEPT ![c] = "open"]
    /\ UNCHANGED <<nextId, nextReq, closed, before, lastOp, queue, loop, pend,
                   outbox, frames>>
    /\ MainFrame

\* One turn of the while let loop of user_connected on an Ok frame.
ReadFrame(c, f) ==
    /\ pc[c] = "open"
    /\ frames < MaxFrames
    /\ frames' = frames + 1
    /\ LET m == parse_message(f)
       IN  IF m = NoMsg
           THEN UNCHANGED <<pc, queue>>
           ELSE IF loop.pc = "dead"
           THEN /\ pc' = [pc EXCEPT ![c] = "ended"]
                /\ queue' = queue
           ELSE /\ queue' = Append(queue, [id |-> MyId(c), kind |-> m.kind,
                                           name |-> m.name])
                /\ pc' = pc
    /\ UNCHANGED <<users, nextId, nextReq, closed, before, lastOp, loop, pend,
                   outbox>>
    /\ MainFrame

\* ws_receiver.next() yields None or Err: the loop of user_connected ends.
TransportEnd(c) ==
    /\ pc[c] = "open"
    /\ pc' = [pc EXCEPT ![c] = "ended"]
    /\ UNCHANGED <<users, nextId, nextReq, closed, before, lastOp, queue, loop,
                   pend, outbox, frames>>
    /\ MainFrame

\* game_server.write().await.users.remove(&my_id). The User and its tx are
\* dropped: the outbound channel is gone with what was put on it.
RemoveUser(c) ==
    /\ pc[c] = "ended"
    /\ ~ReadGuardHeld
    /\ users' = Removed(users, MyId(c))
    /\ pc' = [pc EXCEPT ![c] = "removed"]
    /\ outbox' = [outbox EXCEPT ![c] = <<>>]
    /\ closed' = closed \ {c}
    /\ UNCHANGED <<nextId, nextReq, before, lastOp, queue, loop, pend, frames>>
    /\ MainFrame

\* broadcast(&game_server, GoodBye(my_id)): the read guard is taken and the
\* loop over the users starts.
GoodByeStart(c) ==
    /\ pc[c] = "removed"
    /\ \E p \in Perms(TxOf(users)) :
         /\ pend' = [pend EXCEPT ![c] = SendsTo(p, GoodBye(MyId(c)))]
         /\ pc' = [pc EXCEPT ![c] = IF p = <<>> THEN "done" ELSE "bye"]
    /\ UNCHANGED <<users, nextId, nextReq, closed, before, lastOp, queue, loop,
                   outbox, frames>>
    /\ MainFrame

\* What becomes of a task when its loop of sends ends: update_loop goes on or
\* is dead; user_connected has nothing left to do either way.
AfterSends(t, panicked) ==
    IF t = LoopTask
    THEN /\ loop' = IF panicked THEN Dead ELSE Idle
         /\ pc' = pc
    ELSE /\ pc' = [pc EXCEPT ![t] = "done"]
         /\ loop' = loop

\* create_send_channel: the task forwarding the channel to the websocket sink
\* ends, and drops the receiver, when a write to the sink fails. That takes a
\* message put on the channel after the socket died; `closed` holds the
\* channels that got one, whose receiver may be gone at the next send.
SocketDead(tx) == pc[tx] = "ended"

\* One send_msg of a task's loop that succeeds.
Send(t) ==
    /\ pend[t] # <<>>
    /\ LET h == Head(pend[t])
       IN  /\ pend' = [pend EXCEPT ![t] = Tail(@)]
           /\ outbox' = [outbox EXCEPT ![h.tx] = Append(@, h.msg)]
           /\ closed' = IF SocketDead(h.tx) THEN closed \cup {h.tx} ELSE closed
           /\ IF Tail(pend[t]) = <<>>
              THEN AfterSends(t, FALSE)
              ELSE UNCHANGED <<pc, loop>>
    /\ UNCHANGED <<users, nextId, nextReq, before, lastOp, queue, frames>>
    /\ MainFrame

\* One send_msg of a task's loop on a channel whose receiver is gone: the
\* unwrap panics, the task ends and its read guard is dropped.
SendPanics(t) ==
    /\ pend[t] # <<>>
    /\ Head(pend[t]).tx \in closed
    /\ pend' = [pend EXCEPT ![t] = <<>>]
    /\ AfterSends(t, TRUE)
    /\ UNCHANGED <<users, nextId, nextReq, closed, before, lastOp, queue, outbox, frames>>
    /\ MainFrame

\* update_loop: rx.recv() and the user_still_here test.
LoopRecv ==
    /\ loop.pc = "recv"
    /\ queue # <<>>
    /\ queue' = Tail(queue)
    /\ LET w == Head(queue)
       IN  loop' = IF w.id \in DOMAIN users
                   THEN [pc |-> "dispatch", id |-> w.id, kind |-> w.kind, name |-> w.name]
                   ELSE loop
    /\ UNCHANGED <<users, nextId, nextReq, closed, before, lastOp, pc, pend,
                   outbox, frames>>
    /\ MainFrame

LoopFrame ==
    /\ loop.pc = "dispatch"
    /\ UNCHANGED <<users, before, lastOp, nextId, closed, pc, queue, outbox, frames>>
    /\ MainFrame

\* user_message, ClientMessage::Connect { name }
MainConnect ==
    /\ LoopFrame
    /\ loop.kind = "Connect"
    /\ \E p \in Perms(TxOf(users)) :
         /\ pend' = [pend EXCEPT ![LoopTask] = SendsTo(p, PlayerJoined(loop.id, loop.name))]
         /\ loop' = IF p = <<>> THEN Idle ELSE [loop EXCEPT !.pc = "sending"]
    /\ UNCHANGED nextReq

\* user_message, ClientMessage::ChangeName { name }: the scan under its own
\* read guard. On a match the statement `ServerMessage::NameNotAvailable { .. };`
\* builds a value and drops it: nothing is sent. Otherwise broadcast takes the
\* guard again.
MainChangeName ==
    /\ LoopFrame
    /\ loop.kind = "ChangeName"
    /\ IF FindByLowercase(users, loop.name) # {}
       THEN /\ pend' = pend
            /\ loop' = Idle
       ELSE /\ pend' = pend
            /\ loop' = [loop EXCEPT !.pc = "broadcast"]
    /\ UNCHANGED nextReq

\* broadcast(game_server, PlayerChangedName { id, new_name })
MainBroadcast ==
    /\ loop.pc = "broadcast"
    /\ \E p \in Perms(TxOf(users)) :
         /\ pend' = [pend EXCEPT ![LoopTask] =
                        SendsTo(p, PlayerChangedName(loop.id, loop.name))]
         /\ loop' = IF p = <<>> THEN Idle ELSE [loop EXCEPT !.pc = "sending"]
    /\ UNCHANGED <<users, nextId, nextReq, closed, before, lastOp, pc, queue,
                   outbox, frames>>
    /\ MainFrame

\* user_message, ClientMessage::ChallengePlayer { name }
MainChallengePlayer ==
    /\ LoopFrame
    /\ loop.kind = "ChallengePlayer"
    /\ IF FindByLowercase(users, loop.name) # {}
       THEN /\ nextReq <= MaxReq
            /\ nextReq' = nextReq + 1
            /\ \E t \in FindByLowercase(users, loop.name) :
                 /\ pend' = [pend EXCEPT ![LoopTask] =
                       [i \in 1..2 |-> [tx |-> users[t].tx,
                                        msg |-> ChallengeMsgs(users, t, nextReq)[i]]]]
            /\ loop' = [loop EXCEPT !.pc = "sending"]
       ELSE /\ UNCHANGED <<nextReq, pend>>
            /\ loop' = Idle

\* user_message, AcceptChallenge / DenyChallenge / State => todo!(): the
\* update_loop task panics and its receiver is dropped.
MainTodo ==
    /\ LoopFrame
    /\ loop.kind \in TodoKinds
    /\ loop' = Dead
    /\ UNCHANGED <<nextReq, pend>>

InitMain == Init

NextMain ==
    \/ \E c \in Conns : Accept(c)
    \/ \E c \in Conns : Register(c)
    \/ \E c \in Conns, f \in FrameSet : ReadFrame(c, f)
    \/ \E c \in Conns : TransportEnd(c)
    \/ \E c \in Conns : RemoveUser(c)
    \/ \E c \in Conns : GoodByeStart(c)
    \/ \E t \in Tasks : Send(t)
    \/ \E t \in Tasks : SendPanics(t)
    \/ LoopRecv
    \/ MainConnect
    \/ MainChangeName
    \/ MainBroadcast
    \/ MainChallengePlayer
    \/ MainTodo

SpecMain == InitMain /\ [][NextMain]_vars

\* ================================================================ client
\* Game::handle_message. The todo!() arms panic.
handle_message(g, msg) ==
    IF g.player_state = "Offline"
    THEN IF msg.type = "Welcome"
         THEN [g EXCEPT !.player_state = "Online", !.id = msg.id]
         ELSE g
    ELSE IF g.player_state = "Online"
    THEN CASE msg.type = "GoodBye" ->
                [g EXCEPT !.player_state = "Offline",
                          !.id = 0,
                          !.players = IF msg.id # g.id THEN Removed(@, msg.id) ELSE @,
                          !.quit = IF msg.id # g.id THEN @ ELSE TRUE]
           [] msg.type = "PlayerChangedName" ->
                IF g.id # msg.id /\ msg.id \in DOMAIN g.players
                THEN [g EXCEPT !.players[msg.id] = msg.name]
                ELSE g
           [] msg.type = "PlayerJoined" ->
                [g EXCEPT !.players = Inserted(@, msg.id, msg.name)]
           [] msg.type \in {"ChallengeReceived", "ChallengeDenied",
                            "RequestReceived", "InvalidMessage"} ->
                [g EXCEPT !.player_state = "Panicked"]
           [] OTHER -> g
    ELSE g

\* client_receive, once per frame of the main loop: the messages polled from
\* the connection are handled in the order they arrived.
RECURSIVE Received(_, _)
Received(g, msgs) ==
    IF msgs = <<>> THEN g
    ELSE Received(handle_message(g, Head(msgs)), Tail(msgs))

\* The client of the player id once its Welcome { id } was handled.
Online(id) == handle_message(NewGame, Welcome(id))

\* The ServerMessage values a client is sent in the runs of SpecClient.
ClientIds == 1..MaxPlayers
ClientNames == {NameA, NameB}
ServerMsgs ==
    {Welcome(i) : i \in ClientIds} \cup {GoodBye(i) : i \in ClientIds}
        \cup {PlayerJoined(i, n) : i \in ClientIds, n \in ClientNames}
        \cup {PlayerChangedName(i, n) : i \in ClientIds, n \in ClientNames}
        \cup {NameNotAvailable, InvalidMessage, ChallengeReceived(1, NameA),
              RequestReceived(1)}

ClientFrame == UNCHANGED serverVars

\* client_connect: connection.connect(&url) is called, the first time and
\* again after every Err.
ClientConnect ==
    /\ ws.pc \in {"idle", "err"}
    /\ ws' = [ws EXCEPT !.pc = "streams"]
    /\ UNCHANGED <<game, lastMsg>>
    /\ ClientFrame

\* connect_internal: join_all and find_map(ok); with no stream the call
\* returns Err("Failed to connect").
JoinStreams(found) ==
    /\ ws.pc = "streams"
    /\ ws' = [ws EXCEPT !.pc = IF found THEN "client" ELSE "err"]
    /\ UNCHANGED <<game, lastMsg>>
    /\ ClientFrame

HandshakeOutcomes == {"Ok", "Interrupted", "Failure"}

\* connect_internal: match client(url, stream). Ok stores the socket and
\* returns Ok(()); Interrupted enters the retry loop with
\* mid_handshake_old = Some(..); any other error is returned.
FirstHandshake(outcome) ==
    /\ ws.pc = "client"
    /\ outcome = "Interrupted" => ws.retries < MaxRetries
    /\ ws' = CASE outcome = "Ok" -> [ws EXCEPT !.pc = "ok", !.socket = TRUE]
              [] outcome = "Interrupted" ->
                   [ws EXCEPT !.pc = "loop", !.mid_handshake_old = TRUE,
                              !.retries = @ + 1]
              [] OTHER -> [ws EXCEPT !.pc = "err"]
    /\ UNCHANGED <<game, lastMsg>>
    /\ ClientFrame

\* One turn of `while !success` with mid_handshake_old = Some(..): take()
\* empties it and retry_handshake runs. Interrupted puts the new
\* MidHandshake back; Failure(_) => () puts nothing back and success stays
\* false; Ok ends the loop, the socket is stored and Ok(()) returned.
RetryHandshake(outcome) ==
    /\ ws.pc = "loop"
    /\ ws.mid_handshake_old
    /\ outcome = "Interrupted" => ws.retries < MaxRetries
    /\ ws' = CASE outcome = "Ok" ->
                   [ws EXCEPT !.pc = "ok", !.socket = TRUE,
                              !.mid_handshake_old = FALSE]
              [] outcome = "Interrupted" -> [ws EXCEPT !.retries = @ + 1]
              [] OTHER -> [ws EXCEPT !.mid_handshake_old = FALSE]
    /\ UNCHANGED <<game, lastMsg>>
    /\ ClientFrame

\* One turn of `while !success` with mid_handshake_old = None:
\* mid_handshake_old.take().unwrap() panics.
RetryPanics ==
    /\ ws.pc = "loop"
    /\ ~ws.mid_handshake_old
    /\ ws' = [ws EXCEPT !.pc = "panicked"]
    /\ UNCHANGED <<game, lastMsg>>
    /\ ClientFrame

\* client_send on a reset connection: connection.restart() drops the socket
\* and client_connect is started again.
Restart ==
    /\ ws.pc = "ok"
    /\ ws' = [ws EXCEPT !.pc = "idle", !.socket = FALSE]
    /\ UNCHANGED <<game, lastMsg>>
    /\ ClientFrame

\* client_receive: connection.poll() yields a message of the stored socket
\* and game.handle_message(msg) runs. A panic of handle_message ends the
\* client.
Receive(msg) ==
    /\ ws.socket
    /\ game.player_state # "Panicked"
    /\ game' = handle_message(game, msg)
    /\ lastMsg' = msg
    /\ ws' = ws
    /\ ClientFrame

NextClient ==
    \/ ClientConnect
    \/ \E found \in BOOLEAN : JoinStreams(found)
    \/ \E outcome \in HandshakeOutcomes : FirstHandshake(outcome)
    \/ \E outcome \in HandshakeOutcomes : RetryHandshake(outcome)
    \/ RetryPanics
    \/ Restart
    \/ \E msg \in ServerMsgs : Receive(msg)

SpecClient == Init /\ [][NextClient]_vars

\* ================================================================ claims
\* Two names are equal under case-insensitive comparison.
SameNameIgnoringCase(a, b) == ToLowercase(a) = ToLowercase(b)

LastJoin == lastOp.kind = "NewUser"
LastJoinOk == LastJoin /\ lastOp.result = "Ok"
LastChangeName == lastOp.kind = "ChangeName" /\ lastOp.id \in DOMAIN before

\* C1: no two players registered at the same time have names that are equal
\* under case-insensitive comparison.
C1_UniqueNamesIgnoringCase ==
    \A u, v \in DOMAIN users :
        u # v => ~SameNameIgnoringCase(users[u].name, users[v].name)

\* C2: a Join whose name differs only in letter case from a registered
\* player's name is rejected and the candidate is not inserted.
C2_CaseVariantJoinRejected ==
    (LastJoin /\ \E u \in DOMAIN before :
                    SameNameIgnoringCase(before[u].name, lastOp.name))
        => (lastOp.result = "Err" /\ users = before)

\* C3: a Join whose name is exactly the name of a registered player fails
\* with the result that hands the candidate back; no id is generated and no
\* message is sent to any player.
C3_ExactDuplicateRejected ==
    [][(nextTx' # nextTx /\ \E u \in DOMAIN users : users[u].name = lastOp'.name)
        => /\ lastOp'.result = "Err"
           /\ lastOp'.retUser = [tx |-> nextTx, in_game |-> FALSE, name |-> lastOp'.name]
           /\ lastOp'.id = 0
           /\ nextId' = nextId
           /\ users' = users
           /\ \A t \in Txs : sent'[t] = <<>>]_vars

C3_Witness ==
    /\ LastJoin
    /\ lastOp.result = "Err"
    /\ \E u \in DOMAIN before : before[u].name = lastOp.name
    /\ lastOp.retUser.tx \notin TxOf(users)

\* C4: a Join or ChangeName rejected for a name collision leaves the registry
\* (ids, names, outbound handles, inGame flags) as it was before the request.
C4_AtomicRejection ==
    ((LastJoin /\ lastOp.result = "Err")
       \/ (lastOp.kind = "ChangeName" /\ lastOp.result = "Rejected"))
        => users = before

C4_Witness ==
    /\ lastOp.kind = "ChangeName"
    /\ lastOp.result = "Rejected"
    /\ lastOp.id \in DOMAIN before
    /\ \E u \in DOMAIN before \ {lastOp.id} :
         SameNameIgnoringCase(before[u].name, lastOp.name)

\* C5: a successful Join inserts exactly one entry {fresh id, candidate name,
\* inGame = false}, returns the id, and every player registered after the
\* insertion receives PlayerJoined{id, name} exactly once.
C5_JoinInsertsAndBroadcastsOnce ==
    LastJoinOk =>
        /\ lastOp.id \notin DOMAIN before
        /\ DOMAIN users = DOMAIN before \cup {lastOp.id}
        /\ \A u \in DOMAIN before : users[u] = before[u]
        /\ users[lastOp.id].name = lastOp.name
        /\ users[lastOp.id].in_game = FALSE
        /\ \A u \in DOMAIN users :
             Count(sent, users[u].tx, PlayerJoined(lastOp.id, lastOp.name)) = 1

\* C6: on a successful Join the new player, and nobody else, receives one
\* PlayerJoined{id, name} for each player that was already registered.
C6_RosterUnicastToNewPlayerOnly ==
    LastJoinOk =>
        \A u \in DOMAIN users : \A o \in DOMAIN before :
            Count(sent, users[u].tx, PlayerJoined(o, before[o].name))
                = IF u = lastOp.id THEN 1 ELSE 0

\* C7: a ChangeName to a name no other registered player holds sets the
\* caller's registry name to it and sends PlayerChangedName{caller, name} to
\* every registered player, the caller included. Stated for the names that
\* no registered player at all holds, in any letter case, so that the answer
\* to a caller's own name (C9) plays no part.
C7_ChangeNameApplied ==
    (LastChangeName /\ lastOp.result # "Panic"
       /\ \A u \in DOMAIN before : ~SameNameIgnoringCase(before[u].name, lastOp.name))
        => /\ users[lastOp.id].name = lastOp.name
           /\ \A u \in DOMAIN users :
                Count(sent, users[u].tx, PlayerChangedName(lastOp.id, lastOp.name)) = 1

\* C8: when update_loop dispatches a ChangeName of a registered caller and
\* another registered player holds the name under case-insensitive
\* comparison, NameNotAvailable is sent to the caller and to nobody else, and
\* the registry is left as it was.
C8_NameNotAvailableToCaller ==
    [][(/\ loop.pc = "dispatch"
        /\ loop.kind = "ChangeName"
        /\ loop'.pc # "dispatch"
        /\ loop.id \in DOMAIN users
        /\ \E u \in DOMAIN users \ {loop.id} :
              SameNameIgnoringCase(users[u].name, loop.name))
        => /\ pend'[LoopTask] = <<[tx |-> users[loop.id].tx, msg |-> NameNotAvailable]>>
           /\ users' = users]_vars

\* C9: the collision check of ChangeName looks at players other than the
\* caller only: a name that collides with nothing but the caller's own name is
\* not answered with NameNotAvailable but broadcast as PlayerChangedName.
C9_OwnNameDoesNotCollide ==
    (LastChangeName /\ lastOp.result # "Panic"
       /\ SameNameIgnoringCase(before[lastOp.id].name, lastOp.name)
       /\ \A u \in DOMAIN before \ {lastOp.id} :
            ~SameNameIgnoringCase(before[u].name, lastOp.name))
        => /\ Count(sent, before[lastOp.id].tx, NameNotAvailable) = 0
           /\ \A u \in DOMAIN users :
                Count(sent, users[u].tx, PlayerChangedName(lastOp.id, lastOp.name)) = 1

\* C10: after an explicit Disconnect of a registered connection its id is out
\* of the registry and every remaining player has received exactly one
\* GoodBye carrying that id.
C10_DisconnectCleanup ==
    (lastOp.kind = "Disconnect" /\ lastOp.uid = lastOp.id /\ lastOp.id \in DOMAIN before)
        => /\ lastOp.id \notin DOMAIN users
           /\ \A u \in DOMAIN users : Count(sent, users[u].tx, GoodBye(lastOp.id)) = 1

\* C11: the removal of a disconnecting player and the queuing of its GoodBye
\* are one step for the other operations on the registry: while a connection
\* is out of the registry and its GoodBye broadcast has not started, no
\* registration is made and update_loop receives and dispatches nothing.
C11_RemovalAndGoodByeAtomic ==
    [][(\E c \in Conns : pc[c] = "removed")
        => (loop' = loop /\ queue' = queue /\ DOMAIN users' = DOMAIN users)]_vars

\* The connection c was handed e1 and, later, e2.
HandedInOrder(c, e1, e2) ==
    \E i, j \in DOMAIN outbox[c] :
        i < j /\ outbox[c][i] = e1 /\ outbox[c][j] = e2

RosterEvent(e) == e.type \in {"PlayerJoined", "PlayerChangedName", "GoodBye"}

\* C12: any two connections that are registered are handed any two of the
\* events PlayerJoined, PlayerChangedName, GoodBye that both get in the same
\* relative order.
C12_SameOrderEverywhere ==
    \A a, b \in Conns :
        (pc[a] = "open" /\ pc[b] = "open")
            => \A i, j \in DOMAIN outbox[a] :
                 (i < j /\ RosterEvent(outbox[a][i]) /\ RosterEvent(outbox[a][j])
                    /\ outbox[a][i] # outbox[a][j])
                     => ~HandedInOrder(b, outbox[a][j], outbox[a][i])

\* C13: after a successful join of B while A is registered, the messages
\* handed to the two clients put B, with B's registry name, in A's view and
\* A, with A's registry name, in B's view. B's channel is new with the
\* join, so the messages of the join are all B's client ever got.
C13_RosterComplete ==
    LastJoinOk =>
        \A a \in DOMAIN before :
            LET b == lastOp.id
                viewA == Received(Online(a), sent[users[a].tx]).players
                viewB == Received(Online(b), sent[users[b].tx]).players
            IN  /\ b \in DOMAIN viewA
                /\ viewA[b] = users[b].name
                /\ a \in DOMAIN viewB
                /\ viewB[a] = users[a].name

\* C14: an AcceptChallenge, DenyChallenge or State message of a registered
\* player leaves the Lobby running and the registry as it was.
C14_TodoMessagesSurvived ==
    (lastOp.kind \in TodoKinds /\ lastOp.id \in DOMAIN before)
        => (alive /\ users = before)

\* C15: a send of a broadcast that fails because the receiver of the channel
\* is gone does not end the task that sends: the player of that channel is
\* taken out of the registry, the rest of the broadcast goes on and
\* update_loop lives. (A step that shortens a task's sends and hands nothing
\* to any channel is a failed send.)
C15_ClosedChannelSurvived ==
    [][\A t \in Tasks :
         (pend[t] # <<>> /\ pend'[t] # pend[t] /\ outbox' = outbox)
            => /\ pend'[t] = Tail(pend[t])
               /\ loop'.pc # "dead"
               /\ Head(pend[t]).tx \notin TxOf(users')]_vars

\* C16: a frame of an open connection that parse_message turns into None is
\* answered with one InvalidMessage on that connection's channel, and the
\* connection stays open. (A frame that is read without a message queued to
\* update_loop and without the connection ending is such a frame.)
C16_InvalidMessageAnswered ==
    [][(frames' # frames /\ queue' = queue /\ pc' = pc)
        => \E c \in Conns :
             /\ pc[c] = "open"
             /\ outbox' = [outbox EXCEPT ![c] = Append(@, InvalidMessage)]]_vars

LastChallenge == lastOp.kind = "ChallengePlayer"

ChallengedByName ==
    /\ LastChallenge
    /\ lastOp.result = "Done"
    /\ lastOp.id \in DOMAIN before
    /\ lastOp.found \in DOMAIN before \ {lastOp.id}
    /\ before[lastOp.found].name = lastOp.name

\* C18: when U1 challenges U2 by name, the ChallengeReceived U2 gets carries
\* U1's name, the challenger's, and comes with a RequestReceived of the same
\* request id.
C18_ChallengerNameCarried ==
    ChallengedByName
        => sent[before[lastOp.found].tx]
             = <<ChallengeReceived(nextReq - 1, before[lastOp.id].name),
                 RequestReceived(nextReq - 1)>>

\* C19: a ChallengePlayer whose name matches no registered player under
\* case-insensitive comparison sends nothing to anybody and leaves the
\* registry as it was.
C19_NoMatchSilent ==
    (LastChallenge /\ \A u \in DOMAIN before :
                        ~SameNameIgnoringCase(before[u].name, lastOp.name))
        => /\ sent = NoSent
           /\ users = before
           /\ lastOp.result = "Done"

C19_Witness ==
    /\ LastChallenge
    /\ lastOp.id \in DOMAIN before
    /\ Cardinality(DOMAIN before) = 2
    /\ \A u \in DOMAIN before : ~SameNameIgnoringCase(before[u].name, lastOp.name)

C21_WelcomeAfterRegistration ==
    \A c \in Conns :
        /\ (\E i \in DOMAIN outbox[c] : outbox[c][i].type = "Welcome")
              => pc[c] \notin {"new", "welcomed"}
        /\ MyId(c) \in DOMAIN users => frames > 0

\* C22: the registry changes only in steps of the task that serves the
\* requests one at a time (update_loop); no step of a connection's
\* user_connected task changes it.
C22_RegistryMutatedByLobbyOnly ==
    [][users' # users => pc' = pc]_vars

\* C23: every player in the registry has in_game = false.
C23_NobodyInGame ==
    \A u \in DOMAIN users : users[u].in_game = FALSE

C23_Witness ==
    /\ Cardinality(DOMAIN users) = 2
    /\ lastOp.kind = "ChangeName"
    /\ lastOp.result = "Changed"
    /\ lastOp.id \in DOMAIN users

\* C24: an explicit Disconnect{uid} handled for the sender id removes an
\* entry only when uid = id: with another uid the registry stays as it was.
C24_DisconnectOwnEntryOnly ==
    (lastOp.kind = "Disconnect" /\ lastOp.id \in DOMAIN before
       /\ lastOp.uid # lastOp.id)
        => users = before

\* C25: a connection that was handed GoodBye of an id is not handed a
\* PlayerJoined or PlayerChangedName of the same id afterwards.
C25_NothingAfterGoodBye ==
    \A o \in Conns : \A i, j \in DOMAIN outbox[o] :
        (i < j /\ outbox[o][i].type = "GoodBye")
            => ~(/\ outbox[o][j].type \in {"PlayerJoined", "PlayerChangedName"}
                 /\ outbox[o][j].id = outbox[o][i].id)

DispatchKinds ==
    {"Connect", "GetPlayers", "ChangeName", "ChallengePlayer", "Disconnect"}
        \cup TodoKinds

\* C26: a client message handled for a sender id that is not in the registry
\* changes nothing in the registry and sends nothing to anybody.
C26_UnregisteredSenderIgnored ==
    (lastOp.kind \in DispatchKinds /\ lastOp.id \notin DOMAIN before)
        => (users = before /\ sent = NoSent)

\* C27: a PlayerJoined or PlayerChangedName about a registered player that
\* the last handled request sent carries the name the registry stores for
\* that player. (The registry has not changed since that request, so its
\* message is the most recent one about the player.)
C27_AnnouncedNamesAgree ==
    \A t \in Txs : \A i \in DOMAIN sent[t] :
        (sent[t][i].type \in {"PlayerJoined", "PlayerChangedName"}
           /\ sent[t][i].id \in DOMAIN users)
            => users[sent[t][i].id].name = sent[t][i].name

\* C28: when an Online client handles GoodBye of an id other than its own,
\* exactly that id leaves its player list, it stays Online and quit is as
\* it was; GoodBye of its own id sets quit. (A step that changes nothing of
\* the connection is a handled message.)
C28_GoodByeOfOtherKeepsOnline ==
    [][(ws' = ws /\ game.player_state = "Online" /\ lastMsg'.type = "GoodBye")
        => IF lastMsg'.id # game.id
           THEN /\ game'.players = Removed(game.players, lastMsg'.id)
                /\ game'.player_state = "Online"
                /\ game'.quit = game.quit
           ELSE game'.quit]_vars

\* C29: the handshake retry loop of connect_internal never panics.
C29_RetryLoopNeverPanics ==
    ws.pc # "panicked"

====
